---- MODULE Spec2Model ----
\* Subscription entitlement reconciliation of the Jogolinga backend:
\* services/subscriptionService.js (src/unnamed/part_000), the admin override of
\* services/authService.js (same file) and the Stripe webhook routes
\* (src/unnamed/part_001, src/server.js).
\*
\* The store (Supabase) and the billing provider (Stripe) are remote services.
\* Every `await` on one of them is one atomic step of the model; the
\* synchronous code that follows it up to the next `await` belongs to that
\* step.  Requests run concurrently in the request slots Procs.
\*
\* Spec is the whole service: entitlement checks and the feature gate,
\* checkout and payment confirmation, cancellation and reactivation, the
\* admin override of the sign-in, and the subscription
\* events Stripe sends about the subscriptions it holds.  WebhookSpec runs
\* the webhook routes alone, on every kind of delivery, from each table of
\* StartTables.
EXTENDS Integers, Sequences, FiniteSets, TLC

\* ------------------------------------------------------------------ bounds
MaxTime == 1              \* the clock counts billing periods, 0..MaxTime
MaxProviderChanges == 1   \* provider-side changes of existing subscriptions
MaxPayments == 2          \* rows the table payment_history can take

Accounts == {"u1", "u2"}
Buyers == {"u1"}          \* the accounts that start a checkout
Procs == {"p1"}           \* request slots (requests in flight at once)
SessionIds == <<"cs1">>           \* ids Stripe hands out, in this order
Sessions == {SessionIds[i] : i \in 1..Len(SessionIds)}

\* ------------------------------------------------------------- null values
\* A nullable column or field is the empty tuple (null / undefined) or a
\* one-element tuple holding the value.
Null == <<>>
Some(x) == <<x>>

\* ADMIN_EMAILS: the accounts whose e-mail is on the allow-list.
ADMIN_EMAILS == {"u1"}

isAdminEmail(a) == a \in ADMIN_EMAILS

\* premiumFeatures of the SubscriptionService constructor.
premiumFeatures ==
  {"grammar_full", "sentence_construction", "sentence_gap",
   "exercise_unlimited", "offline_mode", "google_drive_sync",
   "advanced_stats", "custom_audio_upload", "priority_support"}

\* Status values Stripe reports for a subscription.
StripeStatuses == {"active", "trialing", "past_due", "canceled"}

\* ------------------------------------------------------------------- state
VARIABLES
  subs,        \* table `subscriptions`: user_id -> row (user_id is unique)
  sessions,    \* Stripe checkout sessions: session id -> session
  stripeSubs,  \* Stripe subscriptions: subscription id -> subscription
  events,      \* signed webhook events Stripe has emitted and not yet retired
  changes,     \* number of provider-side changes made so far
  now,         \* the clock (new Date())
  payment_history,  \* table `payment_history`, in insertion order
  upsertNulls, \* whether the store client nulls a column whose value is
               \* undefined in an upsert (Null: either, at each call)
  start,       \* the table `subscriptions` the behaviour started from
  pc,          \* per request slot: where the request in it is suspended
  loc,         \* per request slot: the local variables of the request
  last         \* the response the latest step delivered (NoResp: none)

vars ==
  <<subs, sessions, stripeSubs, events, changes, now, payment_history,
    upsertNulls, start, pc, loc, last>>

\* ------------------------------------------------------------ store rows
\* Columns of `subscriptions` that the entitlement logic reads or writes
\* (created_at / updated_at / starts_at / payment_id are bookkeeping only).
DefaultRow ==
  [tier |-> "free", status |-> "active", expires_at |-> Null,
   billing_period |-> Null, plan_id |-> Null, stripe_customer_id |-> Null,
   stripe_subscription_id |-> Null, cancelled_at |-> Null]

FreeRow_Premium == [DefaultRow EXCEPT !.tier = "premium"]

\* The row verifyUserSubscription inserts for an account without one.
FreeRow == [DefaultRow EXCEPT !.tier = "free", !.status = "active"]

\* Rows are kept as explicit records.
Row(f) ==
  [tier |-> f.tier, status |-> f.status, expires_at |-> f.expires_at,
   billing_period |-> f.billing_period, plan_id |-> f.plan_id,
   stripe_customer_id |-> f.stripe_customer_id,
   stripe_subscription_id |-> f.stripe_subscription_id,
   cancelled_at |-> f.cancelled_at]

\* .update(cols).eq('user_id', userId): the named columns of the matching row.
StoreUpdate(table, userId, cols) ==
  IF userId \in DOMAIN table
    THEN [table EXCEPT ![userId] = Row(cols @@ table[userId])]
    ELSE table

StoreInsert_Overwrite(table, userId, row) == (userId :> row) @@ table

\* .insert([row]): rejected (duplicate key) when the account has a row.
StoreInsert(table, userId, row) ==
  IF userId \in DOMAIN table THEN table ELSE (userId :> row) @@ table

StoreUpsert_Conflict(table, userId, cols) ==
  IF userId \in DOMAIN table
    THEN [table EXCEPT ![userId] =
            Row([plan_id |-> Null] @@ cols @@ table[userId])]
    ELSE (userId :> Row(cols @@ DefaultRow)) @@ table

\* .upsert([cols], {onConflict: 'user_id'}).
StoreUpsert(table, userId, cols) ==
  IF userId \in DOMAIN table
    THEN [table EXCEPT ![userId] = Row(cols @@ table[userId])]
    ELSE (userId :> Row(cols @@ DefaultRow)) @@ table

NoRows == [a \in {} |-> DefaultRow]

\* ------------------------------------------------- verifyUserSubscription
LocalIsActive_NoExpiry(subscription, t) == subscription.status = "active"

\* "Verifier l'expiration": the local activity of a row at time t.
LocalIsActive(subscription, t) ==
  IF subscription.expires_at # Null /\ t > subscription.expires_at[1]
    THEN FALSE
    ELSE subscription.status = "active"

NeedsStripeCheck_Always(subscription, isActive) == isActive

\* Whether the provider is asked about the subscription.
NeedsStripeCheck(subscription, isActive) ==
  subscription.stripe_subscription_id # Null /\ isActive

\* ['active', 'trialing'].includes(stripeSubscription.status)
StripeIsActive(status) == status \in {"active", "trialing"}

OnStripeError_Deny(isActive) == FALSE

\* catch (stripeError): "continuer avec les donnees locales".
OnStripeError(isActive) == isActive

ReconcileCols_KeepStatus(stripeIsActive, periodEnd, t) ==
  [status |-> "active",
   expires_at |-> IF stripeIsActive THEN Some(periodEnd) ELSE Some(t)]

\* The columns written when Stripe disagrees with the local activity.
ReconcileCols(stripeIsActive, periodEnd, t) ==
  [status |-> IF stripeIsActive THEN "active" ELSE "cancelled",
   expires_at |-> IF stripeIsActive THEN Some(periodEnd) ELSE Some(t)]

ResultTier_Stored(subscription, isActive) == subscription.tier

ResultIsPremium_IgnoreTier(subscription, isActive) == isActive

\* The entitlement returned for a row and its activity.
ResultTier(subscription, isActive) ==
  IF isActive THEN subscription.tier ELSE "free"

ResultStatus(isActive) == IF isActive THEN "active" ELSE "expired"

ResultIsPremium(subscription, isActive) ==
  isActive /\ subscription.tier = "premium"

Entitlement(subscription, isActive) ==
  [isPremium |-> ResultIsPremium(subscription, isActive),
   tier |-> ResultTier(subscription, isActive),
   status |-> ResultStatus(isActive),
   expiresAt |-> subscription.expires_at,
   billingPeriod |-> subscription.billing_period,
   planId |-> IF subscription.plan_id # Null THEN subscription.plan_id[1]
              ELSE IF subscription.tier = "premium" THEN "premium_plan"
              ELSE "free_plan",
   stripeSubscriptionId |-> subscription.stripe_subscription_id]

DefaultEntitlement_Expired ==
  [isPremium |-> FALSE, tier |-> "free", status |-> "expired",
   expiresAt |-> Null, billingPeriod |-> Null, planId |-> "free_plan",
   stripeSubscriptionId |-> Null]

\* The entitlement returned for a missing row and from the outer catch.
DefaultEntitlement ==
  [isPremium |-> FALSE, tier |-> "free", status |-> "active",
   expiresAt |-> Null, billingPeriod |-> Null, planId |-> "free_plan",
   stripeSubscriptionId |-> Null]

\* -------------------------------------------------------- feature gate
\* Feature ids a client asks about: two premium-only ones, one that is not,
\* and the id requirePremium asks about.
Features == {"offline_mode", "grammar_full", "vocabulary", "premium_required"}

PremiumReason == "Cette fonctionnalite necessite un abonnement Premium"
GenericReason == "Erreur lors de la verification des permissions"

HasAccess_PremiumOnly(feature, isPremium) == isPremium

\* !this.premiumFeatures.includes(feature) || subscription.isPremium
HasAccess(feature, isPremium) ==
  feature \notin premiumFeatures \/ isPremium

checkFeatureAccess_Conservative(outcome, subscription, feature) ==
  [hasAccess |-> FALSE, isPremium |-> FALSE, tier |-> "free",
   feature |-> feature, reason |-> Some(GenericReason), expiresAt |-> Null]

\* checkFeatureAccess(userId, feature) once verifyUserSubscription(userId)
\* has ended: with the entitlement it returned, or in the catch if it threw.
checkFeatureAccess(outcome, subscription, feature) ==
  IF outcome = "threw"
    THEN [hasAccess |-> FALSE, isPremium |-> FALSE, tier |-> "free",
          feature |-> feature, reason |-> Some(GenericReason),
          expiresAt |-> Null]
    ELSE LET hasAccess == HasAccess(feature, subscription.isPremium)
         IN [hasAccess |-> hasAccess,
             isPremium |-> subscription.isPremium,
             tier |-> subscription.tier,
             feature |-> feature,
             reason |-> IF ~hasAccess THEN Some(PremiumReason) ELSE Null,
             expiresAt |-> subscription.expiresAt]

\* requirePremium(req, res, next) once its checkFeatureAccess has answered:
\* next() is called, or the response is a 403 with the upgrade URL.  (Its
\* catch answers 500 when checkFeatureAccess throws, which it never does.)
requirePremium(outcome, subscription) ==
  LET access == checkFeatureAccess(outcome, subscription, "premium_required")
  IN IF ~access.hasAccess
       THEN [proceeds |-> FALSE, status |-> "403",
             error |-> "Abonnement Premium requis",
             currentTier |-> Some(access.tier),
             upgradeUrl |-> Some("/subscription")]
       ELSE [proceeds |-> TRUE, status |-> "", error |-> "",
             currentTier |-> Null, upgradeUrl |-> Null]

\* What a request other than a resolve answers to the feature gate: nothing.
NoAccess == [f \in {} |-> 0]
NoGuard ==
  [proceeds |-> FALSE, status |-> "", error |-> "", currentTier |-> Null,
   upgradeUrl |-> Null]

\* ------------------------------------------------------ request slots
NoStripeSub ==
  [id |-> "", status |-> "", current_period_end |-> 0, userId |-> Null,
   planId |-> Null, interval |-> Null, customer |-> ""]

NoLoc ==
  [user |-> "", rec |-> DefaultRow, at |-> 0, isActive |-> FALSE,
   stripe |-> NoStripeSub, cols |-> DefaultRow, sid |-> ""]

\* The response of a request, with what the request observed on its way:
\* the row it read (rec), the clock when it evaluated the expiry (at), the
\* status Stripe reported (stripe), and the branch it took (path); for a
\* webhook delivery the event (ev) and whether it directly follows a handled
\* delivery of the same event (again).  A resolve is the one checkFeatureAccess
\* and requirePremium make: its response carries what checkFeatureAccess
\* answers for each feature (access) and what requirePremium does (guard).
Resp(op, a, path, outcome, ent, rec, at, stripe, sid) ==
  [op |-> op, user |-> a, path |-> path, outcome |-> outcome, ent |-> ent,
   rec |-> rec, at |-> at, stripe |-> stripe, sid |-> sid, ev |-> Null,
   again |-> FALSE,
   access |-> IF op = "resolve"
                THEN [f \in Features |->
                        checkFeatureAccess(outcome, ent, f)]
                ELSE NoAccess,
   guard |-> IF op = "resolve" THEN requirePremium(outcome, ent)
                               ELSE NoGuard]

NoResp ==
  Resp("none", "", "", "returned", DefaultEntitlement, Null, 0, Null, "")

\* The request in slot p ends with response r.
Return(p, r) ==
  /\ pc' = [pc EXCEPT ![p] = "idle"]
  /\ loc' = [loc EXCEPT ![p] = NoLoc]
  /\ last' = r

\* The request in slot p waits for its next remote call to answer.
Suspend(p, at, l) ==
  /\ pc' = [pc EXCEPT ![p] = at]
  /\ loc' = [loc EXCEPT ![p] = l]
  /\ last' = NoResp

\* Outcomes of a remote call.
StoreReadOutcomes == {"ok", "error", "malformed"}
StoreWriteOutcomes == {"ok", "error"}
StripeOutcomes == {"ok", "error"}

\* What only the webhook routes write.
unchangedWebhookState == UNCHANGED <<payment_history, upsertNulls, start>>

unchangedProvider ==
  /\ UNCHANGED <<sessions, stripeSubs, events, changes, now>>
  /\ unchangedWebhookState

\* verifyUserSubscription(userId), from the call to the answer of the select.
verifyUserSubscription(p, a, out) ==
  /\ pc[p] = "idle"
  /\ UNCHANGED subs
  /\ unchangedProvider
  /\   IF out = "error"
         THEN \* error other than PGRST116: thrown, outer catch
              Return(p, Resp("resolve", a, "fetch_error", "returned",
                             DefaultEntitlement, Null, now, Null, ""))
       ELSE IF out = "ok" /\ a \notin DOMAIN subs
         THEN \* PGRST116: insert the free row next
              Suspend(p, "vus_insert", [NoLoc EXCEPT !.user = a, !.at = now])
       ELSE IF out = "malformed"
         THEN \* no error and no usable row: TypeError, outer catch
              Return(p, Resp("resolve", a, "malformed", "returned",
                             DefaultEntitlement, Null, now, Null, ""))
       ELSE LET subscription == subs[a]
                isActive == LocalIsActive(subscription, now)
            IN  IF NeedsStripeCheck(subscription, isActive)
                  THEN Suspend(p, "vus_stripe",
                               [NoLoc EXCEPT !.user = a, !.rec = subscription,
                                             !.at = now, !.isActive = isActive])
                  ELSE Return(p, Resp("resolve", a, "local", "returned",
                                      Entitlement(subscription, isActive),
                                      Some(subscription), now, Null, ""))

\* The insert of the free row answers; its error is not looked at.
vusInsert(p, out) ==
  /\ pc[p] = "vus_insert"
  /\ unchangedProvider
  /\   /\ subs' = IF out = "ok"
                    THEN StoreInsert(subs, loc[p].user, FreeRow)
                    ELSE subs
       /\ Return(p, Resp("resolve", loc[p].user,
                         IF out = "ok" /\ loc[p].user \notin DOMAIN subs
                           THEN "created" ELSE "create_failed",
                         "returned", DefaultEntitlement, Null, loc[p].at,
                         Null, ""))

\* stripe.subscriptions.retrieve answers.
vusStripe(p, out) ==
  /\ pc[p] = "vus_stripe"
  /\ UNCHANGED subs
  /\ unchangedProvider
  /\ LET l == loc[p]
         id == IF l.rec.stripe_subscription_id = Null THEN ""
               ELSE l.rec.stripe_subscription_id[1]
     IN   IF out = "error" \/ id \notin DOMAIN stripeSubs
            THEN \* inner catch: continue with the local data
                 Return(p, Resp("resolve", l.user, "stripe_failed", "returned",
                                Entitlement(l.rec, OnStripeError(l.isActive)),
                                Some(l.rec), l.at, Null, ""))
            ELSE LET st == stripeSubs[id]
                     stripeIsActive == StripeIsActive(st.status)
                 IN  IF l.isActive # stripeIsActive
                       THEN Suspend(p, "vus_update",
                              [l EXCEPT !.stripe = st,
                                        !.cols = Row(ReconcileCols(stripeIsActive,
                                                   st.current_period_end, now)
                                                 @@ DefaultRow)])
                       ELSE Return(p, Resp("resolve", l.user, "stripe_agrees",
                                      "returned",
                                      Entitlement(l.rec, stripeIsActive),
                                      Some(l.rec), l.at, Some(st.status), ""))

\* The update of status / expires_at answers; its error is not looked at.
vusUpdate(p, out) ==
  /\ pc[p] = "vus_update"
  /\ unchangedProvider
  /\ LET l == loc[p]
         stripeIsActive == StripeIsActive(l.stripe.status)
     IN   /\ subs' = IF out = "ok"
                       THEN StoreUpdate(subs, l.user,
                              [status |-> l.cols.status,
                               expires_at |-> l.cols.expires_at])
                       ELSE subs
          /\ Return(p, Resp("resolve", l.user,
                            IF out = "ok" THEN "reconciled"
                                          ELSE "reconcile_failed",
                            "returned", Entitlement(l.rec, stripeIsActive),
                            Some(l.rec), l.at, Some(l.stripe.status), ""))

\* ------------------------------------------------------ checkout / payment
PlanId == "premium_monthly"

\* The rows of the table users: every account has one.  A caller outside it
\* holds a token for an id without a row.
Users == Accounts
Strangers == {"u0"}

UserFound_Always(storeOut, userId) == TRUE

\* if (userError || !user) throw: .single() reports an absent row as an error.
UserFound(storeOut, userId) == storeOut = "ok" /\ userId \in Users

CheckoutSession_Unattributed(userId, planId) ==
  [client_reference_id |-> userId, userId |-> Null,
   planId |-> Some(planId), payment_status |-> "unpaid",
   subscription |-> Null, customer |-> Null]

\* The session stripe.checkout.sessions.create is asked for: the account in
\* client_reference_id, and (userId, planId) in metadata and in
\* subscription_data.metadata.
CheckoutSession(userId, planId) ==
  [client_reference_id |-> userId, userId |-> Some(userId),
   planId |-> Some(planId), payment_status |-> "unpaid",
   subscription |-> Null, customer |-> Null]

StripeThrows_Never(out) == FALSE

\* A call to Stripe that fails rejects, and the await throws.
StripeThrows(out) == out = "error"

\* createCheckoutSession(userId, planId, priceId): the users row is read,
\* then the session is created at Stripe.
createCheckoutSession(a, storeOut, stripeOut) ==
  /\ a \in Buyers \cup Strangers
  /\ Cardinality(DOMAIN sessions) < Len(SessionIds)
  /\ UNCHANGED <<subs, stripeSubs, events, changes, now, pc, loc>>
  /\ unchangedWebhookState
  /\ LET id == SessionIds[Cardinality(DOMAIN sessions) + 1] IN
       IF ~UserFound(storeOut, a)
         THEN /\ UNCHANGED sessions
              /\ last' = Resp("createCheckoutSession", a, "user_not_found",
                              "threw", DefaultEntitlement, Null, now, Null,
                              "")
       ELSE IF StripeThrows(stripeOut)
         THEN /\ UNCHANGED sessions
              /\ last' = Resp("createCheckoutSession", a, "provider_error",
                              "threw", DefaultEntitlement, Null, now, Null,
                              "")
       ELSE /\ sessions' = (id :> CheckoutSession(a, PlanId)) @@ sessions
            /\ last' = Resp("createCheckoutSession", a, "created",
                            "returned", DefaultEntitlement, Null, now, Null,
                            id)

SessionBelongsTo_Anyone(session, userId) == TRUE

\* session.client_reference_id !== userId is refused.
SessionBelongsTo(session, userId) == session.client_reference_id = userId

\* items.data[0]?.price?.recurring?.interval || 'monthly'
BillingPeriodOf(interval) ==
  IF interval # Null THEN interval[1] ELSE "monthly"

\* metadata?.planId || 'premium_plan'
PlanIdOf(planId) == IF planId # Null THEN planId[1] ELSE "premium_plan"

PaymentCols_NoPeriod(session, stripeSubscription) ==
  [stripe_customer_id |-> session.customer,
   stripe_subscription_id |-> Some(stripeSubscription.id),
   tier |-> "premium",
   status |-> "active",
   expires_at |-> Null,
   plan_id |-> Some(PlanIdOf(session.planId)),
   billing_period |-> Some("monthly")]

\* The record verifyPayment hands to updateUserSubscription.
PaymentCols(session, stripeSubscription) ==
  [stripe_customer_id |-> session.customer,
   stripe_subscription_id |-> Some(stripeSubscription.id),
   tier |-> "premium",
   status |-> "active",
   expires_at |-> Some(stripeSubscription.current_period_end),
   plan_id |-> Some(PlanIdOf(session.planId)),
   billing_period |-> Some(BillingPeriodOf(stripeSubscription.interval))]

IsPaid_Always(session) == TRUE

\* session.payment_status === 'paid'
IsPaid(session) == session.payment_status = "paid"

\* verifyPayment(sessionId, userId), from the call to the answer of
\* stripe.checkout.sessions.retrieve (subscription and customer expanded).
verifyPayment(p, a, s, out) ==
  /\ pc[p] = "idle"
  /\ UNCHANGED subs
  /\ unchangedProvider
  /\   IF StripeThrows(out) \/ s \notin DOMAIN sessions
         THEN Return(p, Resp("verifyPayment", a, "provider_error", "threw",
                             DefaultEntitlement, Null, now, Null, s))
       ELSE LET session == sessions[s] IN
         IF ~SessionBelongsTo(session, a)
           THEN Return(p, Resp("verifyPayment", a, "unauthorized", "threw",
                               DefaultEntitlement, Null, now, Null, s))
         ELSE IF IsPaid(session)
           THEN IF session.subscription # Null
                  THEN Suspend(p, "vp_upsert",
                         [NoLoc EXCEPT
                            !.user = a, !.sid = s, !.at = now,
                            !.cols = Row(PaymentCols(session,
                                       stripeSubs[session.subscription[1]])
                                     @@ DefaultRow)])
                  ELSE Return(p, Resp("verifyPayment", a, "completed",
                                      "returned", DefaultEntitlement, Null,
                                      now, Null, s))
           ELSE Return(p, Resp("verifyPayment", a, "pending", "returned",
                               DefaultEntitlement, Null, now, Null, s))

\* updateUserSubscription: the columns of the upsert.  A field the caller
\* leaves undefined is serialised away; the store keeps the old value of the
\* column, or nulls it (undefNull), depending on how the client lists columns.
UpsertCols(data, withCustomer, undefNull) ==
  LET named == [stripe_subscription_id |-> data.stripe_subscription_id,
                tier |-> data.tier, status |-> data.status,
                expires_at |-> data.expires_at, plan_id |-> data.plan_id,
                billing_period |-> data.billing_period]
  IN IF withCustomer
       THEN [stripe_customer_id |-> data.stripe_customer_id] @@ named
       ELSE IF undefNull THEN [stripe_customer_id |-> Null] @@ named
       ELSE named

updateUserSubscription(table, userId, data, withCustomer, undefNull) ==
  StoreUpsert(table, userId, UpsertCols(data, withCustomer, undefNull))

\* The upsert of verifyPayment answers; an error is thrown to the caller.
vpUpsert(p, out) ==
  /\ pc[p] = "vp_upsert"
  /\ unchangedProvider
  /\ LET l == loc[p] IN
       IF out = "ok"
         THEN /\ subs' = updateUserSubscription(subs, l.user, l.cols,
                                                TRUE, FALSE)
              /\ Return(p, Resp("verifyPayment", l.user, "completed",
                                "returned", DefaultEntitlement, Null, l.at,
                                Null, l.sid))
         ELSE /\ UNCHANGED subs
              /\ Return(p, Resp("verifyPayment", l.user, "store_error",
                                "threw", DefaultEntitlement, Null, l.at,
                                Null, l.sid))

\* A delivery to a webhook route: the event and whether its stripe-signature
\* header matches the body under STRIPE_WEBHOOK_SECRET.
NoPaymentIntent ==
  [id |-> "", userId |-> Null, amount |-> 0, currency |-> ""]

StripeEvent(type, subscription) ==
  [type |-> type, sub |-> subscription, pi |-> NoPaymentIntent,
   signed |-> TRUE]

PaymentEvent(paymentIntent) ==
  [type |-> "payment_intent.succeeded", sub |-> NoStripeSub,
   pi |-> paymentIntent, signed |-> TRUE]

\* ------------------------------------------------------------- cancel
\* cancelUserSubscription(userId), from the call to the answer of the select
\* of stripe_subscription_id.
cancelUserSubscription(p, a, out) ==
  /\ pc[p] = "idle"
  /\ UNCHANGED subs
  /\ unchangedProvider
  /\ IF out = "ok" /\ a \in DOMAIN subs
        /\ subs[a].stripe_subscription_id # Null
       THEN Suspend(p, "cancel_stripe",
                    [NoLoc EXCEPT !.user = a, !.at = now,
                                  !.sid = subs[a].stripe_subscription_id[1]])
       ELSE Return(p, Resp("cancel", a, "no_subscription", "threw",
                           DefaultEntitlement, Null, now, Null, ""))

\* The columns cancelUserSubscription writes.
CancelCols(periodEnd, t) ==
  [status |-> "cancelled", cancelled_at |-> Some(t),
   expires_at |-> Some(periodEnd)]

\* stripe.subscriptions.update(id, {cancel_at_period_end: true}) answers with
\* the subscription.  Stripe keeps its status and its period; the end of the
\* subscription at the period end is one of the changes of ProviderChange.
cancelStripe(p, out) ==
  /\ pc[p] = "cancel_stripe"
  /\ UNCHANGED subs
  /\ unchangedProvider
  /\ LET l == loc[p] IN
       IF StripeThrows(out) \/ l.sid \notin DOMAIN stripeSubs
         THEN Return(p, Resp("cancel", l.user, "provider_error", "threw",
                             DefaultEntitlement, Null, l.at, Null, l.sid))
         ELSE LET cancelledSubscription == stripeSubs[l.sid]
              IN Suspend(p, "cancel_update",
                   [l EXCEPT !.at = now,
                      !.cols = Row(CancelCols(
                                 cancelledSubscription.current_period_end,
                                 now) @@ DefaultRow)])

\* The update of cancelUserSubscription answers; its error is not looked at.
cancelUpdate(p, out) ==
  /\ pc[p] = "cancel_update"
  /\ unchangedProvider
  /\ LET l == loc[p] IN
       /\ subs' = IF out = "ok"
                    THEN StoreUpdate(subs, l.user,
                           [status |-> l.cols.status,
                            cancelled_at |-> l.cols.cancelled_at,
                            expires_at |-> l.cols.expires_at])
                    ELSE subs
       /\ Return(p, Resp("cancel", l.user,
                         IF out = "ok" THEN "cancelled" ELSE "cancel_unsaved",
                         "returned", DefaultEntitlement, Null, l.at, Null,
                         l.sid))

\* ---------------------------------------------------------- reactivate
\* reactivateUserSubscription(userId), from the call to the answer of the
\* select of stripe_subscription_id.
reactivateUserSubscription(p, a, out) ==
  /\ pc[p] = "idle"
  /\ UNCHANGED subs
  /\ unchangedProvider
  /\ IF out = "ok" /\ a \in DOMAIN subs
        /\ subs[a].stripe_subscription_id # Null
       THEN Suspend(p, "reactivate_stripe",
                    [NoLoc EXCEPT !.user = a, !.at = now,
                                  !.sid = subs[a].stripe_subscription_id[1]])
       ELSE Return(p, Resp("reactivate", a, "no_subscription", "threw",
                           DefaultEntitlement, Null, now, Null, ""))

ReactivateCols_StatusOnly == [status |-> "active"]

\* The columns reactivateUserSubscription writes.
ReactivateCols == [status |-> "active", cancelled_at |-> Null]

\* stripe.subscriptions.update(id, {cancel_at_period_end: false}) answers.
reactivateStripe(p, out) ==
  /\ pc[p] = "reactivate_stripe"
  /\ UNCHANGED subs
  /\ unchangedProvider
  /\ LET l == loc[p] IN
       IF StripeThrows(out) \/ l.sid \notin DOMAIN stripeSubs
         THEN Return(p, Resp("reactivate", l.user, "provider_error", "threw",
                             DefaultEntitlement, Null, l.at, Null, l.sid))
         ELSE Suspend(p, "reactivate_update", [l EXCEPT !.at = now])

\* The update of reactivateUserSubscription answers; its error is not looked
\* at.
reactivateUpdate(p, out) ==
  /\ pc[p] = "reactivate_update"
  /\ unchangedProvider
  /\ LET l == loc[p] IN
       /\ subs' = IF out = "ok"
                    THEN StoreUpdate(subs, l.user, ReactivateCols)
                    ELSE subs
       /\ Return(p, Resp("reactivate", l.user,
                         IF out = "ok" THEN "reactivated"
                                       ELSE "reactivate_unsaved",
                         "returned", DefaultEntitlement, Null, l.at, Null,
                         l.sid))

\* ------------------------------------------------------------- webhooks
\* Events Stripe sends apart from those of subscriptions: payments with and
\* without metadata.userId, and a type without a handler.
OtherEvents ==
  {PaymentEvent([id |-> "pi_1", userId |-> Some("u1"), amount |-> 999,
                 currency |-> "eur"]),
   PaymentEvent([id |-> "pi_2", userId |-> Null, amount |-> 999,
                 currency |-> "eur"]),
   StripeEvent("invoice.paid", NoStripeSub)}

\* Requests anyone can post: a body naming an account, without a valid
\* signature.
ForgedEvents ==
  {[StripeEvent("customer.subscription.updated",
                [NoStripeSub EXCEPT !.id = "sub_forged", !.status = "active",
                                    !.userId = Some("u2")])
      EXCEPT !.signed = FALSE]}

Routes == {"/api/webhooks/stripe", "/api/stripe/webhook"}

Handler_Unverified(route, e) ==
  IF e.type = "customer.subscription.updated"
    THEN "handleSubscriptionUpdate"
    ELSE "ignored"

Handler_RejectUnknown(route, e) ==
  IF e.signed /\ e.type = "customer.subscription.updated"
    THEN "handleSubscriptionUpdate"
  ELSE IF e.signed /\ e.type = "customer.subscription.deleted"
    THEN "handleSubscriptionCancellation"
  ELSE "rejected"

\* What a route does with a delivery: constructEvent throws on a bad
\* signature; the switch on event.type picks the handler.
Handler(route, e) ==
  IF ~e.signed THEN "rejected"
  ELSE IF e.type = "customer.subscription.updated"
    THEN "handleSubscriptionUpdate"
  ELSE IF e.type = "customer.subscription.deleted"
    THEN "handleSubscriptionCancellation"
  ELSE IF e.type = "payment_intent.succeeded"
          /\ route = "/api/webhooks/stripe"
    THEN "handleSuccessfulPayment"
  ELSE "ignored"

\* The answer of a route: res.json({received: true}), or status 400.
WebhookResp(e, path, outcome) ==
  [Resp("webhook", "", path, outcome, DefaultEntitlement, Null, now, Null, "")
     EXCEPT !.ev = Some(e),
            !.again = (last.ev = Some(e) /\ last.path = path
                       /\ path \in {"updated", "deleted"})]

\* Everything that can be posted to a route.
Deliveries == events \cup OtherEvents \cup ForgedEvents

\* Stripe retires an acknowledged event, or delivers it again (keep).
Retire(e, keep) == events' = IF keep THEN events ELSE events \ {e}

UpdateEventCols_Trialing(subscription) ==
  [stripe_subscription_id |-> Some(subscription.id),
   tier |-> "premium",
   status |-> IF subscription.status \in {"active", "trialing"}
                THEN "active" ELSE "cancelled",
   expires_at |-> Some(subscription.current_period_end),
   billing_period |-> Some(BillingPeriodOf(subscription.interval)),
   plan_id |-> Some(PlanIdOf(subscription.planId))]

\* The record handleSubscriptionUpdate hands to updateUserSubscription.
UpdateEventCols(subscription) ==
  [stripe_subscription_id |-> Some(subscription.id),
   tier |-> "premium",
   status |-> IF subscription.status = "active" THEN "active"
                                                 ELSE "cancelled",
   expires_at |-> Some(subscription.current_period_end),
   billing_period |-> Some(BillingPeriodOf(subscription.interval)),
   plan_id |-> Some(PlanIdOf(subscription.planId))]

MetadataUserId_Customer(subscription) ==
  IF subscription.userId # Null THEN subscription.userId
                                ELSE Some(subscription.customer)

\* subscription.metadata?.userId
MetadataUserId(subscription) == subscription.userId

\* What the upsert of handleSubscriptionUpdate makes of the table; the
\* record leaves stripeCustomerId undefined.
SubscriptionUpdated(table, subscription, undefNull) ==
  updateUserSubscription(table, MetadataUserId(subscription)[1],
                         UpdateEventCols(subscription) @@ DefaultRow,
                         FALSE, undefNull)

\* handleSubscriptionUpdate(subscription): dropped without a userId in the
\* metadata; otherwise one upsert.  Every error is caught and logged, the
\* event is acknowledged either way.
handleSubscriptionUpdate(route, e, out, keep) ==
  /\ e \in Deliveries
  /\ Handler(route, e) = "handleSubscriptionUpdate"
  /\ UNCHANGED <<sessions, stripeSubs, changes, now, pc, loc>>
  /\ unchangedWebhookState
  /\ Retire(e, keep)
  /\ IF MetadataUserId(e.sub) # Null /\ out = "ok"
       THEN \E undefNull \in (IF upsertNulls = Null THEN BOOLEAN
                                                    ELSE {upsertNulls[1]}) :
              /\ subs' = SubscriptionUpdated(subs, e.sub, undefNull)
              /\ last' = WebhookResp(e, "updated", "acknowledged")
       ELSE /\ UNCHANGED subs
            /\ last' = WebhookResp(e, IF MetadataUserId(e.sub) = Null
                                        THEN "update_dropped"
                                        ELSE "update_failed", "acknowledged")

\* The columns handleSubscriptionCancellation writes.
CancellationCols(t) == [status |-> "cancelled", cancelled_at |-> Some(t)]

StoreUpdateBySubscription_Once(table, id, cols) ==
  [a \in DOMAIN table |->
     IF table[a].stripe_subscription_id # Some(id) THEN table[a]
     ELSE IF table[a].status = cols.status
       THEN [table[a] EXCEPT !.cancelled_at = Null]
       ELSE Row(cols @@ table[a])]

\* .update(cols).eq('stripe_subscription_id', id)
StoreUpdateBySubscription(table, id, cols) ==
  [a \in DOMAIN table |->
     IF table[a].stripe_subscription_id = Some(id)
       THEN Row(cols @@ table[a])
       ELSE table[a]]

\* What the update of handleSubscriptionCancellation makes of the table.
SubscriptionCancelled(table, subscription, t) ==
  StoreUpdateBySubscription(table, subscription.id, CancellationCols(t))

\* handleSubscriptionCancellation(subscription): dropped without a userId in
\* the metadata; otherwise every row with this stripe_subscription_id is
\* marked cancelled.  The result of the update is not looked at.
handleSubscriptionCancellation(route, e, out, keep) ==
  /\ e \in Deliveries
  /\ Handler(route, e) = "handleSubscriptionCancellation"
  /\ UNCHANGED <<sessions, stripeSubs, changes, now, pc, loc>>
  /\ unchangedWebhookState
  /\ Retire(e, keep)
  /\ IF MetadataUserId(e.sub) # Null /\ out = "ok"
       THEN /\ subs' = SubscriptionCancelled(subs, e.sub, now)
            /\ last' = WebhookResp(e, "deleted", "acknowledged")
       ELSE /\ UNCHANGED subs
            /\ last' = WebhookResp(e, IF MetadataUserId(e.sub) = Null
                                        THEN "delete_dropped"
                                        ELSE "delete_failed", "acknowledged")

\* currency.toUpperCase()
ToUpperCase(s) == IF s = "eur" THEN "EUR" ELSE IF s = "usd" THEN "USD" ELSE s

\* The row handleSuccessfulPayment inserts.
PaymentRow(paymentIntent, t) ==
  [user_id |-> paymentIntent.userId[1],
   stripe_payment_intent_id |-> paymentIntent.id,
   amount |-> paymentIntent.amount,
   currency |-> ToUpperCase(paymentIntent.currency),
   status |-> "completed",
   completed_at |-> t]

\* handleSuccessfulPayment(paymentIntent): an insert when the metadata names
\* an account; the result of the insert is not looked at.
InsertPayment_Replace(table, row) == <<row>>

\* supabase.from('payment_history').insert([row])
InsertPayment(table, row) == Append(table, row)

handleSuccessfulPayment(route, e, out) ==
  /\ e \in Deliveries
  /\ Handler(route, e) = "handleSuccessfulPayment"
  /\ Len(payment_history) < MaxPayments
  /\ UNCHANGED <<subs, sessions, stripeSubs, events, changes, now,
                 upsertNulls, start, pc, loc>>
  /\ IF e.pi.userId # Null /\ out = "ok"
       THEN /\ payment_history' = InsertPayment(payment_history,
                                                PaymentRow(e.pi, now))
            /\ last' = WebhookResp(e, "payment_recorded", "acknowledged")
       ELSE /\ UNCHANGED payment_history
            /\ last' = WebhookResp(e, "payment_skipped", "acknowledged")

\* The default branch of the switch (and the empty case of
\* checkout.session.completed): the delivery is acknowledged.
webhookIgnored(route, e) ==
  /\ e \in Deliveries
  /\ Handler(route, e) = "ignored"
  /\ UNCHANGED <<subs, sessions, stripeSubs, events, changes, now, pc, loc>>
  /\ unchangedWebhookState
  /\ last' = WebhookResp(e, "ignored", "acknowledged")

\* constructEvent throws: the route answers 400.
webhookRejected(route, e) ==
  /\ e \in Deliveries
  /\ Handler(route, e) = "rejected"
  /\ UNCHANGED <<subs, sessions, stripeSubs, events, changes, now, pc, loc>>
  /\ unchangedWebhookState
  /\ last' = WebhookResp(e, "bad_signature", "rejected")

\* ------------------------------------------------------- admin override
\* setupAdminPremiumSubscription(user), run by the sign-in of an allow-listed
\* identity: the select, then an insert or an update.
adminSubscriptionData_Monthly ==
  [tier |-> "premium", status |-> "active", plan_id |-> Some("premium_admin"),
   billing_period |-> Some("monthly"), expires_at |-> Some(0)]

\* The row the insert is given.
adminSubscriptionData ==
  [tier |-> "premium", status |-> "active", plan_id |-> Some("premium_admin"),
   billing_period |-> Some("permanent"), expires_at |-> Null]

AdminUpdateCols_Trial ==
  [tier |-> "premium", status |-> "trialing",
   plan_id |-> Some("premium_admin"), billing_period |-> Some("permanent"),
   expires_at |-> Null]

\* The columns the update of an existing row is given.
AdminUpdateCols ==
  [tier |-> "premium", status |-> "active", plan_id |-> Some("premium_admin"),
   billing_period |-> Some("permanent"), expires_at |-> Null]

OnAdminSetupError_Throw == "threw"

\* A store error in setupAdminPremiumSubscription is logged and the function
\* returns; the sign-in goes on to sign the token and returns it.
OnAdminSetupError == "returned"

\* Row r holds what the admin override writes.
IsAdminRecord(r) ==
  /\ r.tier = "premium"
  /\ r.status = "active"
  /\ r.plan_id = Some("premium_admin")
  /\ r.billing_period = Some("permanent")
  /\ r.expires_at = Null

\* The sign-in of account a ends: op signIn, returned when the token is
\* returned; again tells whether the row was the admin record before the
\* write answered.
SignInResp(a, path, outcome, at) ==
  [Resp("signIn", a, path, outcome, DefaultEntitlement, Null, at, Null, "")
     EXCEPT !.again = (a \in DOMAIN subs /\ IsAdminRecord(subs[a]))]

setupAdminPremiumSubscription(p, a, out) ==
  /\ pc[p] = "idle"
  /\ isAdminEmail(a)
  /\ UNCHANGED subs
  /\ unchangedProvider
  /\   IF out = "ok" /\ a \in DOMAIN subs
         THEN Suspend(p, "admin_update", [NoLoc EXCEPT !.user = a, !.at = now])
         ELSE Suspend(p, "admin_insert", [NoLoc EXCEPT !.user = a, !.at = now])

adminInsert(p, out) ==
  /\ pc[p] = "admin_insert"
  /\ unchangedProvider
  /\ LET created == out = "ok" /\ loc[p].user \notin DOMAIN subs IN
       /\ subs' = IF out = "ok"
                    THEN StoreInsert(subs, loc[p].user,
                                     Row(adminSubscriptionData @@ DefaultRow))
                    ELSE subs
       /\ Return(p, SignInResp(loc[p].user,
                               IF created THEN "admin_created"
                                          ELSE "admin_failed",
                               IF created THEN "returned"
                                          ELSE OnAdminSetupError,
                               loc[p].at))

adminUpdate(p, out) ==
  /\ pc[p] = "admin_update"
  /\ unchangedProvider
  /\   /\ subs' = IF out = "ok"
                    THEN StoreUpdate(subs, loc[p].user, AdminUpdateCols)
                    ELSE subs
       /\ Return(p, SignInResp(loc[p].user,
                               IF out = "ok" THEN "admin_updated"
                                             ELSE "admin_failed",
                               IF out = "ok" THEN "returned"
                                             ELSE OnAdminSetupError,
                               loc[p].at))

\* ------------------------------------------------------- first sign-in
\* authenticateWithGoogle for an identity without a users row: the users row
\* is created and the free subscription row inserted for its new id; an
\* error of the insert is a warning, and the sign-in goes on.  The id has no
\* subscription row yet.  The insert of the free row by a second resolve of
\* the account, running beside the one in the request slot, is this step too.
createDefaultSubscription(a, out) ==
  /\ a \notin DOMAIN subs
  /\ UNCHANGED <<pc, loc>>
  /\ unchangedProvider
  /\ subs' = IF out = "ok" THEN StoreInsert(subs, a, FreeRow) ELSE subs
  /\ last' = NoResp

\* ------------------------------------------------------------ environment
\* The customer pays a checkout session: Stripe marks it paid, creates the
\* subscription (metadata copied from subscription_data.metadata), paid
\* through the current billing period, and emits
\* customer.subscription.updated.
CustomerPays(s) ==
  /\ s \in DOMAIN sessions
  /\ sessions[s].payment_status = "unpaid"
  /\ UNCHANGED <<subs, changes, now, pc, loc>>
  /\ unchangedWebhookState
  /\ last' = NoResp
  /\ \E st \in {"active", "trialing"} :
       LET owner == sessions[s].client_reference_id
           subscription ==
             [id |-> s, status |-> st,
              current_period_end |-> now,
              userId |-> sessions[s].userId, planId |-> sessions[s].planId,
              interval |-> Some("month"), customer |-> owner]
       IN /\ sessions' = [sessions EXCEPT ![s].payment_status = "paid",
                                          ![s].subscription = Some(s),
                                          ![s].customer = Some(owner)]
          /\ stripeSubs' = (s :> subscription) @@ stripeSubs
          /\ events' = events \cup
                         {StripeEvent("customer.subscription.updated",
                                      subscription)}

\* Stripe changes a subscription (trial end, failed payment, cancellation,
\* renewal through the current billing period) and emits the matching event.
ProviderChange(s) ==
  /\ s \in DOMAIN stripeSubs
  /\ changes < MaxProviderChanges
  /\ stripeSubs[s].status # "canceled"
  /\ changes' = changes + 1
  /\ UNCHANGED <<subs, sessions, now, pc, loc>>
  /\ unchangedWebhookState
  /\ last' = NoResp
  /\ \E st \in StripeStatuses, renew \in BOOLEAN :
       LET old == stripeSubs[s]
           new == [old EXCEPT !.status = st,
                     !.current_period_end = IF renew THEN now ELSE @]
       IN /\ new # old
          /\ stripeSubs' = [stripeSubs EXCEPT ![s] = new]
          /\ events' = events \cup
               {StripeEvent(IF st = "canceled"
                              THEN "customer.subscription.deleted"
                              ELSE "customer.subscription.updated", new)}

Tick ==
  /\ now < MaxTime
  /\ now' = now + 1
  /\ UNCHANGED <<subs, sessions, stripeSubs, events, changes, pc, loc>>
  /\ unchangedWebhookState
  /\ last' = NoResp

\* ------------------------------------------------------ specification
Init ==
  /\ subs = NoRows
  /\ sessions = [s \in {} |-> 0]
  /\ stripeSubs = [s \in {} |-> NoStripeSub]
  /\ events = {}
  /\ changes = 0
  /\ now = 0
  /\ payment_history = <<>>
  /\ upsertNulls = Null
  /\ start = subs
  /\ pc = [p \in Procs |-> "idle"]
  /\ loc = [p \in Procs |-> NoLoc]
  /\ last = NoResp

Next ==
  \/ \E p \in Procs, a \in Accounts, out \in StoreReadOutcomes :
       verifyUserSubscription(p, a, out)
  \/ \E p \in Procs, out \in StoreWriteOutcomes : vusInsert(p, out)
  \/ \E p \in Procs, out \in StripeOutcomes : vusStripe(p, out)
  \/ \E p \in Procs, out \in StoreWriteOutcomes : vusUpdate(p, out)
  \/ \E a \in Accounts \cup Strangers, storeOut \in {"ok", "error"},
        stripeOut \in StripeOutcomes :
       createCheckoutSession(a, storeOut, stripeOut)
  \/ \E p \in Procs, a \in Accounts, s \in Sessions, out \in StripeOutcomes :
       verifyPayment(p, a, s, out)
  \/ \E p \in Procs, out \in StoreWriteOutcomes : vpUpsert(p, out)
  \/ \E r \in Routes, e \in events, out \in StoreWriteOutcomes,
        keep \in BOOLEAN :
       handleSubscriptionUpdate(r, e, out, keep)
  \/ \E r \in Routes, e \in events, out \in StoreWriteOutcomes,
        keep \in BOOLEAN :
       handleSubscriptionCancellation(r, e, out, keep)
  \/ \E p \in Procs, a \in Accounts, out \in StoreReadOutcomes :
       cancelUserSubscription(p, a, out)
  \/ \E p \in Procs, out \in StripeOutcomes : cancelStripe(p, out)
  \/ \E p \in Procs, out \in StoreWriteOutcomes : cancelUpdate(p, out)
  \/ \E p \in Procs, a \in Accounts, out \in StoreReadOutcomes :
       reactivateUserSubscription(p, a, out)
  \/ \E p \in Procs, out \in StripeOutcomes : reactivateStripe(p, out)
  \/ \E p \in Procs, out \in StoreWriteOutcomes : reactivateUpdate(p, out)
  \/ \E p \in Procs, a \in Accounts, out \in {"ok", "error"} :
       setupAdminPremiumSubscription(p, a, out)
  \/ \E p \in Procs, out \in StoreWriteOutcomes : adminInsert(p, out)
  \/ \E p \in Procs, out \in StoreWriteOutcomes : adminUpdate(p, out)
  \/ \E a \in Accounts, out \in StoreWriteOutcomes :
       createDefaultSubscription(a, out)
  \/ \E s \in Sessions : CustomerPays(s)
  \/ \E s \in Sessions : ProviderChange(s)
  \/ Tick

Spec == Init /\ [][Next]_vars

\* ------------------------------------------------- the webhook routes
\* The webhook routes on their own, started from each table of StartTables
\* with one subscription event pending, and a store client of either kind.
\* A handler makes one store call and reads nothing before it, so a delivery
\* is one step and concurrent deliveries are these steps in either order.
PurchasedRow(s, a, status, cancelledAt) ==
  [DefaultRow EXCEPT !.tier = "premium", !.status = status,
     !.expires_at = Some(0), !.billing_period = Some("month"),
     !.plan_id = Some(PlanId), !.stripe_customer_id = Some(a),
     !.stripe_subscription_id = Some(s), !.cancelled_at = cancelledAt]

\* Rows the operations above leave for an account: none, the free row, a
\* purchased row (active, or cancelled by its owner), the admin row.
StartRows(a, s) ==
  {FreeRow, PurchasedRow(s, a, "active", Null),
   PurchasedRow(s, a, "cancelled", Some(0)),
   Row(adminSubscriptionData @@ DefaultRow)}

StartTables ==
  {NoRows} \cup
  {("u1" :> r) : r \in StartRows("u1", "cs1")} \cup
  {("u1" :> r) @@ ("u2" :> PurchasedRow("cs2", "u2", "active", Null)) :
     r \in StartRows("u1", "cs1")}

\* Subscription events of the subscription cs1, with and without the
\* metadata that names its account.
StartEvents ==
  {StripeEvent("customer.subscription.updated",
     [NoStripeSub EXCEPT !.id = "cs1", !.status = st,
        !.current_period_end = 1, !.userId = u,
        !.planId = Some(PlanId), !.interval = Some("year"),
        !.customer = "u1"]) :
       st \in {"active", "trialing", "past_due"}, u \in {Some("u1"), Null}}
  \cup
  {StripeEvent("customer.subscription.deleted",
     [NoStripeSub EXCEPT !.id = "cs1", !.status = "canceled",
        !.current_period_end = 1, !.userId = u,
        !.planId = Some(PlanId), !.interval = Some("year"),
        !.customer = "u1"]) : u \in {Some("u1"), Null}}

WebhookInit ==
  /\ subs \in StartTables
  /\ start = subs
  /\ events \in {{e} : e \in StartEvents}
  /\ upsertNulls \in {Some(TRUE), Some(FALSE)}
  /\ payment_history = <<>>
  /\ sessions = [s \in {} |-> 0]
  /\ stripeSubs = [s \in {} |-> NoStripeSub]
  /\ changes = 0
  /\ now = 0
  /\ pc = [p \in Procs |-> "idle"]
  /\ loc = [p \in Procs |-> NoLoc]
  /\ last = NoResp

WebhookNext ==
  \/ \E r \in Routes, e \in Deliveries, out \in StoreWriteOutcomes,
        keep \in BOOLEAN :
       handleSubscriptionUpdate(r, e, out, keep)
  \/ \E r \in Routes, e \in Deliveries, out \in StoreWriteOutcomes,
        keep \in BOOLEAN :
       handleSubscriptionCancellation(r, e, out, keep)
  \/ \E r \in Routes, e \in Deliveries, out \in StoreWriteOutcomes :
       handleSuccessfulPayment(r, e, out)
  \/ \E r \in Routes, e \in Deliveries : webhookIgnored(r, e)
  \/ \E r \in Routes, e \in Deliveries : webhookRejected(r, e)
  \/ Tick

WebhookSpec == WebhookInit /\ [][WebhookNext]_vars

\* ------------------------------------------- cancel and reactivate alone
\* cancelUserSubscription and reactivateUserSubscription on their own, for
\* account u1 holding the active premium row of its subscription cs1: the
\* row's expires_at is the subscription's current period end or, the renewal
\* not yet stored, an earlier one; nothing but these two operations and the
\* clock acts.
LifecycleStarts ==
  {[expires |-> e, periodEnd |-> pe, status |-> st] :
     e \in 0..MaxTime, pe \in 0..MaxTime,
     st \in {"active", "trialing", "past_due"}}

LifecycleInit ==
  /\ \E s \in LifecycleStarts :
       /\ s.expires <= s.periodEnd
       /\ subs = ("u1" :> [PurchasedRow("cs1", "u1", "active", Null)
                             EXCEPT !.expires_at = Some(s.expires)])
       /\ stripeSubs =
            ("cs1" :> [id |-> "cs1", status |-> s.status,
                       current_period_end |-> s.periodEnd,
                       userId |-> Some("u1"), planId |-> Some(PlanId),
                       interval |-> Some("month"), customer |-> "u1"])
  /\ start = subs
  /\ sessions = ("cs1" :> [CheckoutSession("u1", PlanId)
                             EXCEPT !.payment_status = "paid",
                                    !.subscription = Some("cs1"),
                                    !.customer = Some("u1")])
  /\ events = {}
  /\ changes = 0
  /\ now = 0
  /\ payment_history = <<>>
  /\ upsertNulls = Null
  /\ pc = [p \in Procs |-> "idle"]
  /\ loc = [p \in Procs |-> NoLoc]
  /\ last = NoResp

LifecycleNext ==
  \/ \E p \in Procs, a \in Accounts, out \in StoreReadOutcomes :
       cancelUserSubscription(p, a, out)
  \/ \E p \in Procs, out \in StripeOutcomes : cancelStripe(p, out)
  \/ \E p \in Procs, out \in StoreWriteOutcomes : cancelUpdate(p, out)
  \/ \E p \in Procs, a \in Accounts, out \in StoreReadOutcomes :
       reactivateUserSubscription(p, a, out)
  \/ \E p \in Procs, out \in StripeOutcomes : reactivateStripe(p, out)
  \/ \E p \in Procs, out \in StoreWriteOutcomes : reactivateUpdate(p, out)
  \/ Tick

LifecycleSpec == LifecycleInit /\ [][LifecycleNext]_vars

\* Requests keep arriving, remote calls answer, and Stripe delivers every
\* event it has emitted; each of them succeeds again and again.
Fairness ==
  /\ \A a \in Accounts :
       SF_vars(\E p \in Procs : verifyUserSubscription(p, a, "ok"))
  /\ \A p \in Procs :
       /\ WF_vars(vusInsert(p, "ok"))
       /\ WF_vars(vusStripe(p, "ok"))
       /\ WF_vars(vusUpdate(p, "ok"))
       /\ WF_vars(vpUpsert(p, "ok"))
       /\ WF_vars(cancelStripe(p, "ok"))
       /\ WF_vars(cancelUpdate(p, "ok"))
       /\ WF_vars(reactivateStripe(p, "ok"))
       /\ WF_vars(reactivateUpdate(p, "ok"))
       /\ WF_vars(adminInsert(p, "ok"))
       /\ WF_vars(adminUpdate(p, "ok"))
  /\ WF_vars(\E r \in Routes, e \in events :
               handleSubscriptionUpdate(r, e, "ok", FALSE))
  /\ WF_vars(\E r \in Routes, e \in events :
               handleSubscriptionCancellation(r, e, "ok", FALSE))

FairSpec == Spec /\ Fairness

\* ====================================================================
\* Properties
\* ====================================================================
\* The vocabulary of the specification, stated apart from the code above.
SpecIsActive(r, t) ==
  r.status = "active" /\ (r.expires_at = Null \/ t <= r.expires_at[1])

ProviderLive(st) == st = "active" \/ st = "trialing"

FreeActive(ent) ==
  ent.isPremium = FALSE /\ ent.tier = "free" /\ ent.status = "active"

\* The latest step is resolve answering for a record it read.
ResolvedRecord == last.op = "resolve" /\ last.rec # Null

\* Response l is verifyPayment answering for a session (of the sessions ss)
\* whose originating account is not the caller.
SpoofedAnswer(l, ss) ==
  /\ l.op = "verifyPayment"
  /\ l.sid \in DOMAIN ss
  /\ ss[l.sid].client_reference_id # l.user

\* C1: verifyPayment fails for every session whose originating account is
\* not the caller, whatever the payment status, and the step changes no
\* subscription row.
C1_AntiSpoofing ==
  [][SpoofedAnswer(last', sessions') =>
       (last'.outcome = "threw" /\ subs' = subs)]_vars

C1_Witness ==
  /\ SpoofedAnswer(last, sessions)
  /\ sessions[last.sid].payment_status = "paid"
  /\ last.outcome = "threw"

\* C2 as stated: for an account without a row resolve returns the free /
\* active default, and when it has returned the account has a free / active
\* row.
C2_Original ==
  (last.op = "resolve" /\ last.path \in {"created", "create_failed"}) =>
    /\ FreeActive(last.ent)
    /\ last.user \in DOMAIN subs
    /\ subs[last.user].tier = "free"
    /\ subs[last.user].status = "active"

\* C2 amended: for an account whose fetch finds no row resolve returns the
\* free / active default; when the store accepts the insert the account then
\* has its one row, free / active with every other column null.
C2_DefaultOnMissing ==
  (last.op = "resolve" /\ last.path \in {"created", "create_failed"}) =>
    /\ FreeActive(last.ent)
    /\ last.path = "created" =>
         /\ last.user \in DOMAIN subs
         /\ subs[last.user].tier = "free"
         /\ subs[last.user].status = "active"
         /\ subs[last.user].expires_at = Null
         /\ subs[last.user].stripe_subscription_id = Null

C2_Witness ==
  /\ last.op = "resolve"
  /\ last.path = "created"
  /\ FreeActive(last.ent)
  /\ last.user \in DOMAIN subs

PastExpiry(r, t) == r.expires_at # Null /\ r.expires_at[1] < t

\* C3: a premium / active row whose expires_at lies before the time of the
\* check resolves to isPremium = false, status = expired, with or without a
\* provider reference.
C3_LocalExpiry ==
  (/\ ResolvedRecord
   /\ last.rec[1].tier = "premium"
   /\ last.rec[1].status = "active"
   /\ PastExpiry(last.rec[1], last.at)) =>
    (last.ent.isPremium = FALSE /\ last.ent.status = "expired")

C3_Witness ==
  /\ ResolvedRecord
  /\ last.rec[1].tier = "premium"
  /\ last.rec[1].status = "active"
  /\ PastExpiry(last.rec[1], last.at)
  /\ last.rec[1].stripe_subscription_id # Null
  /\ last.ent.status = "expired"

\* C4: when the provider call of resolve fails, resolve still returns, the
\* entitlement is the one the row it read gives on its own, and the step
\* writes nothing to the store.
C4_ProviderOutage ==
  [][(last'.op = "resolve" /\ last'.path = "stripe_failed") =>
       /\ last'.outcome = "returned"
       /\ last'.rec # Null
       /\ last'.ent.isPremium =
            (SpecIsActive(last'.rec[1], last'.at)
               /\ last'.rec[1].tier = "premium")
       /\ last'.ent.status =
            (IF SpecIsActive(last'.rec[1], last'.at) THEN "active"
                                                      ELSE "expired")
       /\ last'.ent.expiresAt = last'.rec[1].expires_at
       /\ subs' = subs]_vars

C4_Witness ==
  /\ last.op = "resolve"
  /\ last.path = "stripe_failed"
  /\ last.rec[1].stripe_subscription_id # Null
  /\ last.ent.isPremium

\* C5 as stated: resolve never throws, and after any store failure or
\* malformed record it returns the free / active default.
StoreFailurePaths ==
  {"fetch_error", "malformed", "create_failed", "reconcile_failed"}

C5_Original ==
  (last.op = "resolve" /\ last.path \in StoreFailurePaths) =>
    (last.outcome = "returned" /\ FreeActive(last.ent))

\* C5 amended: resolve never throws; after a failed or malformed fetch, or a
\* failed insert of the default row, it returns the free / active default;
\* a failed reconciliation write is ignored and the provider's answer is
\* returned (isPremium = false, status = expired).
C5_NeverPropagates ==
  last.op = "resolve" =>
    /\ last.outcome = "returned"
    /\ last.path \in {"fetch_error", "malformed", "create_failed"} =>
         FreeActive(last.ent)
    /\ last.path = "reconcile_failed" =>
         (last.ent.isPremium = FALSE /\ last.ent.status = "expired")

C5_Witness ==
  /\ last.op = "resolve"
  /\ last.path = "fetch_error"
  /\ last.user \in DOMAIN subs
  /\ subs[last.user].tier = "premium"
  /\ FreeActive(last.ent)

\* C6: resolve asked the provider, and its liveness differs from the local
\* activity of the row resolve read.
Disagreement ==
  /\ ResolvedRecord
  /\ last.stripe # Null
  /\ ProviderLive(last.stripe[1]) # SpecIsActive(last.rec[1], last.at)

\* C6 as stated: on a disagreement the stored row agrees with the provider
\* when resolve returns, and isPremium follows the provider.
C6_Original ==
  Disagreement =>
    /\ (subs[last.user].status = "active") = ProviderLive(last.stripe[1])
    /\ last.ent.isPremium =
         (ProviderLive(last.stripe[1]) /\ last.rec[1].tier = "premium")

\* C6 amended: on a disagreement the provider is not live and isPremium is
\* false; when the store applies the update the stored row is cancelled,
\* with expires_at no later than now, when resolve returns.
C6_Reconciled ==
  Disagreement =>
    /\ ~ProviderLive(last.stripe[1])
    /\ last.ent.isPremium = FALSE
    /\ last.path = "reconciled" =>
         /\ subs[last.user].status = "cancelled"
         /\ subs[last.user].expires_at # Null
         /\ subs[last.user].expires_at[1] <= now
         /\ ~SpecIsActive(subs[last.user], now)

C6_Witness ==
  /\ Disagreement
  /\ last.path = "reconciled"
  /\ last.rec[1].status = "active"
  /\ subs[last.user].status = "cancelled"

\* The activity resolve is to decide on: the provider's liveness when the
\* provider answered, the local activity of the row otherwise.
DecidedActive ==
  IF last.stripe # Null THEN ProviderLive(last.stripe[1])
                        ELSE SpecIsActive(last.rec[1], last.at)

\* C8: for every row resolve read, with isActive the provider's liveness when
\* the provider answered and the local activity otherwise, resolve returns
\* isPremium = isActive and tier = premium, and status = active when isActive
\* and expired otherwise; a stored status cancelled comes back as expired.
C8_Entitlement ==
  ResolvedRecord =>
    /\ last.ent.isPremium = (DecidedActive /\ last.rec[1].tier = "premium")
    /\ last.ent.status = (IF DecidedActive THEN "active" ELSE "expired")

C8_Witness ==
  /\ ResolvedRecord
  /\ last.rec[1].status = "cancelled"
  /\ last.rec[1].expires_at # Null
  /\ last.at <= last.rec[1].expires_at[1]
  /\ last.ent.status = "expired"
  /\ last.ent.isPremium = FALSE

\* C9: the row resolve read is premium and not active (status other than
\* active, or past its expires_at).
InactivePremium ==
  /\ ResolvedRecord
  /\ last.rec[1].tier = "premium"
  /\ ~SpecIsActive(last.rec[1], last.at)

\* C9 as stated: for such a row resolve reports tier = premium with
\* isPremium = false.
C9_Original ==
  InactivePremium =>
    (last.ent.tier = "premium" /\ last.ent.isPremium = FALSE)

\* C9 amended: for such a row resolve returns isPremium = false and reports
\* tier = free; the stored row keeps tier = premium.
C9_TierDowngraded ==
  InactivePremium =>
    /\ last.ent.isPremium = FALSE
    /\ last.ent.tier = "free"
    /\ subs[last.user].tier = "premium"

C9_Witness ==
  /\ InactivePremium
  /\ last.rec[1].status = "cancelled"
  /\ last.ent.tier = "free"
  /\ subs[last.user].tier = "premium"

AdminGranted(r) ==
  /\ r.tier = "premium"
  /\ r.status = "active"
  /\ r.expires_at = Null
  /\ r.stripe_subscription_id = Null

\* C10: an admin-granted row (premium, active, no expiry, no provider
\* reference) resolves to isPremium = true at any time, and the request never
\* calls the provider.
C10_AdminGranted ==
  /\ (ResolvedRecord /\ AdminGranted(last.rec[1])) =>
       (last.ent.isPremium /\ last.stripe = Null /\ last.path = "local")
  /\ \A p \in Procs :
       pc[p] \in {"vus_stripe", "vus_update"} => ~AdminGranted(loc[p].rec)

C10_Witness ==
  /\ ResolvedRecord
  /\ AdminGranted(last.rec[1])
  /\ last.at = MaxTime
  /\ last.ent.isPremium

\* C7: the provider has stopped changing: every checkout is paid, the
\* budget of provider changes is used up, and no emitted event is pending.
ProviderQuiet ==
  /\ \A s \in Sessions :
       s \in DOMAIN sessions /\ sessions[s].payment_status = "paid"
  /\ changes = MaxProviderChanges
  /\ events = {}

\* The row of account a agrees with the provider: its status is active
\* exactly when the provider reports the subscription live, and a live
\* subscription's expires_at is the provider's current period end.
Converged(a) ==
  (a \in DOMAIN subs /\ subs[a].stripe_subscription_id # Null) =>
    LET st == stripeSubs[subs[a].stripe_subscription_id[1]]
    IN /\ (subs[a].status = "active") = ProviderLive(st.status)
       /\ ProviderLive(st.status) =>
            subs[a].expires_at = Some(st.current_period_end)

\* C7 as stated: once the provider is quiet, with resolve called again and
\* again and every event delivered, each row with a provider reference comes
\* to agree with the provider.
C7_EventualConvergence ==
  \A a \in Accounts : ProviderQuiet ~> Converged(a)

\* The row resolve read was cancelled (cancelled_at is stamped) while the
\* provider still reports its subscription live, and the period it is paid
\* through has not ended at the time of the check.
CancelledInPeriod ==
  /\ ResolvedRecord
  /\ last.rec[1].tier = "premium"
  /\ last.rec[1].status = "cancelled"
  /\ last.rec[1].cancelled_at # Null
  /\ last.rec[1].expires_at # Null
  /\ last.at <= last.rec[1].expires_at[1]
  /\ last.rec[1].stripe_subscription_id # Null
  /\ last.rec[1].stripe_subscription_id[1] \in DOMAIN stripeSubs
  /\ ProviderLive(stripeSubs[last.rec[1].stripe_subscription_id[1]].status)

\* C11 as stated: after a successful cancel of a live subscription, resolve
\* keeps returning isPremium = true until the period end has passed.
C11_AccessUntilPeriodEnd == CancelledInPeriod => last.ent.isPremium

\* C12: a subscription-updated event handled directly after a handled
\* delivery of the same event leaves every row of the table as the first
\* delivery left it, whatever the table it started from.
C12_UpdateIdempotent ==
  [][(last'.op = "webhook" /\ last'.path = "updated" /\ last'.again) =>
       subs' = subs]_vars

C12_Witness ==
  /\ last.op = "webhook"
  /\ last.path = "updated"
  /\ last.again
  /\ subs # start
  /\ "u1" \in DOMAIN start

\* C13: after any number of deliveries of one event (subscription updated or
\* deleted), in any order with clock ticks and other deliveries, the table is
\* what the latest handled delivery alone makes of the table the behaviour
\* started from.
C13_RedeliverySameState ==
  (last.op = "webhook" /\ last.path \in {"updated", "deleted"}) =>
    subs = IF last.path = "updated"
             THEN SubscriptionUpdated(start, last.ev[1].sub, upsertNulls[1])
             ELSE SubscriptionCancelled(start, last.ev[1].sub, last.at)

C13_Witness ==
  /\ last.op = "webhook"
  /\ last.path = "deleted"
  /\ last.again
  /\ subs # start

\* C14: a handled subscription-updated event whose metadata names an account
\* leaves that account a row with tier premium, status active when Stripe
\* reports active and cancelled for every other status, expires_at the
\* current period end and billing_period the recurring interval.
C14_UpdatedUpsert ==
  (last.op = "webhook" /\ last.path = "updated") =>
    LET subscription == last.ev[1].sub
        a == subscription.userId[1]
    IN /\ a \in DOMAIN subs
       /\ subs[a].tier = "premium"
       /\ subs[a].status = (IF subscription.status = "active"
                              THEN "active" ELSE "cancelled")
       /\ subs[a].expires_at = Some(subscription.current_period_end)
       /\ subs[a].billing_period = subscription.interval

C14_Witness ==
  /\ last.op = "webhook"
  /\ last.path = "updated"
  /\ last.ev[1].sub.status = "trialing"
  /\ subs[last.ev[1].sub.userId[1]].status = "cancelled"
  /\ start = NoRows

\* Response l answers a signed subscription-updated delivery whose metadata
\* names no account.
UnattributedUpdate(l) ==
  /\ l.op = "webhook"
  /\ l.ev # Null
  /\ l.ev[1].signed
  /\ l.ev[1].type = "customer.subscription.updated"
  /\ l.ev[1].sub.userId = Null

\* C15: a subscription-updated event without an account id in its metadata
\* is dropped: the step creates and changes no row, and the delivery is
\* acknowledged.
C15_DroppedWithoutAccount ==
  [][UnattributedUpdate(last') =>
       /\ last'.outcome = "acknowledged"
       /\ subs' = subs
       /\ payment_history' = payment_history]_vars

C15_Witness ==
  /\ UnattributedUpdate(last)
  /\ last.outcome = "acknowledged"
  /\ "u1" \in DOMAIN subs
  /\ subs = start

\* C16 as stated: after a subscription-deleted event for subscription S is
\* handled, with or without an account id in its metadata, every row that
\* references S is cancelled with cancelled_at stamped, and every other row
\* is as it was.
C16_DeletedByReference ==
  (last.op = "webhook" /\ last.path \in {"deleted", "delete_dropped"}) =>
    \A a \in DOMAIN subs :
      IF subs[a].stripe_subscription_id = Some(last.ev[1].sub.id)
        THEN subs[a].status = "cancelled" /\ subs[a].cancelled_at # Null
        ELSE subs[a] = start[a]

IsPrefix(s, u) == Len(s) <= Len(u) /\ SubSeq(u, 1, Len(s)) = s

\* C17: no step modifies or removes a row of payment_history, and handling a
\* payment-succeeded event changes no subscription row and adds at most one
\* row to payment_history.
C17_PaymentAppendOnly ==
  [][/\ IsPrefix(payment_history, payment_history')
     /\ (last'.op = "webhook" /\ last'.ev # Null
         /\ last'.ev[1].type = "payment_intent.succeeded") =>
          /\ subs' = subs
          /\ Len(payment_history') <= Len(payment_history) + 1]_vars

C17_Witness ==
  /\ last.op = "webhook"
  /\ last.path = "payment_recorded"
  /\ Len(payment_history) = 2
  /\ payment_history[1].completed_at < payment_history[2].completed_at
  /\ subs # NoRows

\* Response l answers a signed delivery of a type no route has a case for.
Unrecognized(l) ==
  /\ l.op = "webhook"
  /\ l.ev # Null
  /\ l.ev[1].signed
  /\ l.ev[1].type \notin {"customer.subscription.updated",
                          "customer.subscription.deleted",
                          "payment_intent.succeeded",
                          "checkout.session.completed"}

\* C18: a signed event of an unrecognized type is acknowledged, and the step
\* changes no subscription row and no payment_history row.
C18_UnrecognizedIgnored ==
  [][Unrecognized(last') =>
       /\ last'.outcome = "acknowledged"
       /\ subs' = subs
       /\ payment_history' = payment_history]_vars

C18_Witness ==
  /\ Unrecognized(last)
  /\ last.outcome = "acknowledged"
  /\ subs # NoRows
  /\ payment_history # <<>>

\* C19: a delivery whose signature does not verify is answered with a
\* failure, and the step changes no subscription row and no payment_history
\* row: no handler runs for it.
C19_SignatureFirst ==
  [][(last'.op = "webhook" /\ last'.ev # Null /\ ~last'.ev[1].signed) =>
       /\ last'.outcome = "rejected"
       /\ subs' = subs
       /\ payment_history' = payment_history]_vars

C19_Witness ==
  /\ last.op = "webhook"
  /\ ~last.ev[1].signed
  /\ last.outcome = "rejected"
  /\ "u2" \notin DOMAIN subs

\* Response l is verifyPayment answering, with the session retrieved, for a
\* session (of the sessions ss) of the caller that is not paid.
UnpaidOwnSession(l, ss) ==
  /\ l.op = "verifyPayment"
  /\ l.path # "provider_error"
  /\ l.sid \in DOMAIN ss
  /\ ss[l.sid].client_reference_id = l.user
  /\ ss[l.sid].payment_status # "paid"

\* C20: for a session of the caller that is not paid verifyPayment returns
\* status pending, and the step changes no subscription row.
C20_PendingUnpaid ==
  [][UnpaidOwnSession(last', sessions') =>
       /\ last'.path = "pending"
       /\ last'.outcome = "returned"
       /\ subs' = subs]_vars

C20_Witness ==
  /\ UnpaidOwnSession(last, sessions)
  /\ last.path = "pending"
  /\ last.user \in DOMAIN subs
  /\ subs[last.user].tier = "premium"

\* C21: verifyPayment on a paid subscription session of the caller takes the
\* record from Stripe's answer (premium, active, expires_at the end of the
\* subscription's current period, billing_period the recurring interval, the
\* customer and subscription ids), and when it returns it has returned
\* completed and the caller's row holds exactly these values.
C21_PaidSessionCompletes ==
  [][\A p \in Procs :
       /\ (pc[p] = "idle" /\ pc'[p] = "vp_upsert") =>
            LET l == loc'[p]
                session == sessions[l.sid]
                subscription == stripeSubs[session.subscription[1]]
            IN /\ session.client_reference_id = l.user
               /\ session.payment_status = "paid"
               /\ l.cols.tier = "premium"
               /\ l.cols.status = "active"
               /\ l.cols.expires_at = Some(subscription.current_period_end)
               /\ l.cols.billing_period = subscription.interval
               /\ l.cols.stripe_subscription_id = Some(subscription.id)
               /\ l.cols.stripe_customer_id = session.customer
               /\ session.customer # Null
       /\ (pc[p] = "vp_upsert" /\ pc'[p] = "idle"
           /\ last'.outcome = "returned") =>
            LET l == loc[p]
            IN /\ last'.op = "verifyPayment"
               /\ last'.path = "completed"
               /\ l.user \in DOMAIN subs'
               /\ \A c \in {"tier", "status", "expires_at", "billing_period",
                             "stripe_subscription_id", "stripe_customer_id"} :
                    subs'[l.user][c] = l.cols[c]]_vars

C21_Witness ==
  /\ last.op = "verifyPayment"
  /\ last.path = "completed"
  /\ last.user \in DOMAIN subs
  /\ last.sid \in DOMAIN stripeSubs
  /\ LET r == subs[last.user]
     IN /\ r.tier = "premium"
        /\ r.status = "active"
        /\ r.expires_at = Some(stripeSubs[last.sid].current_period_end)
        /\ r.billing_period = Some("month")
        /\ r.stripe_subscription_id = Some(last.sid)
        /\ r.stripe_customer_id = Some(last.user)

\* The row of account a in a table, or Null.
RowOf(table, a) == IF a \in DOMAIN table THEN Some(table[a]) ELSE Null

\* C22: a session createCheckoutSession creates for an account names that
\* account in client_reference_id and (account, plan) in its metadata, the
\* subscription Stripe creates from it carries the same metadata, and neither
\* ever changes; a verifyPayment for the session, whoever calls it, and a
\* subscription-updated delivery for its subscription change no row but the
\* row of that account.
C22_SessionBoundToAccount ==
  [][/\ (last'.op = "createCheckoutSession" /\ last'.path = "created") =>
          /\ last'.sid \notin DOMAIN sessions
          /\ last'.sid \in DOMAIN sessions'
          /\ sessions'[last'.sid].client_reference_id = last'.user
          /\ sessions'[last'.sid].userId = Some(last'.user)
          /\ sessions'[last'.sid].planId = Some(PlanId)
     /\ \A s \in DOMAIN sessions :
          /\ s \in DOMAIN sessions'
          /\ sessions'[s].client_reference_id = sessions[s].client_reference_id
          /\ sessions'[s].userId = sessions[s].userId
          /\ sessions'[s].planId = sessions[s].planId
     /\ \A s \in DOMAIN stripeSubs' :
          /\ s \in DOMAIN sessions'
          /\ stripeSubs'[s].userId = sessions'[s].userId
          /\ stripeSubs'[s].planId = sessions'[s].planId
     /\ (last'.op = "verifyPayment" /\ last'.sid \in DOMAIN sessions) =>
          \A a \in Accounts \ {sessions[last'.sid].client_reference_id} :
            RowOf(subs', a) = RowOf(subs, a)
     /\ (/\ last'.op = "webhook"
         /\ last'.ev # Null
         /\ last'.ev[1].type = "customer.subscription.updated"
         /\ last'.ev[1].sub.id \in DOMAIN sessions) =>
          \A a \in Accounts
                \ {sessions[last'.ev[1].sub.id].client_reference_id} :
            RowOf(subs', a) = RowOf(subs, a)]_vars

C22_Witness ==
  /\ last.op = "webhook"
  /\ last.path = "updated"
  /\ last.ev[1].sub.id \in DOMAIN sessions
  /\ LET owner == sessions[last.ev[1].sub.id].client_reference_id
     IN /\ owner \in DOMAIN subs
        /\ subs[owner].stripe_subscription_id = Some(last.ev[1].sub.id)
        /\ subs[owner].plan_id = Some(PlanId)
        /\ \E a \in DOMAIN subs : a # owner

\* C23: createCheckoutSession for an id without a users row throws, and the
\* step creates no checkout session.
C23_UnknownAccountRefused ==
  [][(last'.op = "createCheckoutSession" /\ last'.user \notin Users) =>
       /\ last'.outcome = "threw"
       /\ sessions' = sessions]_vars

C23_Witness ==
  /\ last.op = "createCheckoutSession"
  /\ last.user \notin Users
  /\ last.path = "user_not_found"
  /\ last.outcome = "threw"
  /\ sessions = [s \in {} |-> 0]

\* C24: a step in which the Stripe call of createCheckoutSession,
\* verifyPayment, cancelUserSubscription or reactivateUserSubscription fails
\* ends the operation with a thrown error and changes no subscription row,
\* and the steps of these operations before their Stripe call answers change
\* none either.
C24_ProviderFailureLeavesRecord ==
  [][/\ (\/ /\ last'.op = "createCheckoutSession"
            /\ \E a \in Accounts \cup Strangers :
                 createCheckoutSession(a, "ok", "error")
         \/ \E p \in Procs :
              /\ pc[p] = "idle"
              /\ last'.op = "verifyPayment" \/ pc'[p] = "vp_upsert"
              /\ \E a \in Accounts, s \in Sessions :
                   verifyPayment(p, a, s, "error")
         \/ \E p \in Procs :
              /\ pc[p] = "cancel_stripe"
              /\ pc'[p] # "cancel_stripe"
              /\ cancelStripe(p, "error")
         \/ \E p \in Procs :
              /\ pc[p] = "reactivate_stripe"
              /\ pc'[p] # "reactivate_stripe"
              /\ reactivateStripe(p, "error")) =>
          /\ last'.outcome = "threw"
          /\ subs' = subs
     /\ (\E p \in Procs :
           /\ pc[p] = "idle"
           /\ pc'[p] \in {"cancel_stripe", "reactivate_stripe"}) =>
          subs' = subs]_vars

C24_Witness ==
  /\ last.op = "reactivate"
  /\ last.path = "provider_error"
  /\ last.outcome = "threw"
  /\ last.user \in DOMAIN subs
  /\ subs[last.user].status = "cancelled"
  /\ subs[last.user].cancelled_at # Null

\* C25: for every account and feature, checkFeatureAccess answers
\* hasAccess = (the feature is not premium-only, or the resolve it made
\* reports premium), with the isPremium and tier of that resolve.
C25_AccessFormula ==
  last.op = "resolve" =>
    \A f \in Features :
      /\ last.access[f].hasAccess
           = ((f \notin premiumFeatures) \/ last.ent.isPremium)
      /\ last.access[f].isPremium = last.ent.isPremium
      /\ last.access[f].tier = last.ent.tier
      /\ last.access[f].feature = f

C25_Witness ==
  /\ last.op = "resolve"
  /\ last.ent.isPremium
  /\ last.access["offline_mode"].hasAccess
  /\ last.access["vocabulary"].hasAccess
  /\ last.access["offline_mode"].tier = "premium"

\* Response l is a resolve whose store read failed or gave no usable row.
StoreUnreachable(l) ==
  l.op = "resolve" /\ l.path \in {"fetch_error", "malformed"}

\* C26 as amended: checkFeatureAccess never throws; when the store cannot be
\* read while resolving, it answers from the free default: isPremium false,
\* tier free, access to every feature that is not premium-only without a
\* reason, and a premium-only feature denied with the premium-required
\* reason.  No answer carries the generic reason.
C26_DegradesToFreeDefault ==
  last.op = "resolve" =>
    /\ last.outcome = "returned"
    /\ \A f \in Features :
         /\ last.access[f].reason # Some(GenericReason)
         /\ last.access[f].hasAccess <=> (last.access[f].reason = Null)
         /\ StoreUnreachable(last) =>
              /\ last.access[f].hasAccess = (f \notin premiumFeatures)
              /\ ~last.access[f].isPremium
              /\ last.access[f].tier = "free"
              /\ ~last.access[f].hasAccess =>
                   last.access[f].reason = Some(PremiumReason)

C26_Witness ==
  /\ StoreUnreachable(last)
  /\ last.user \in DOMAIN subs
  /\ subs[last.user].tier = "premium"
  /\ last.access["vocabulary"].hasAccess
  /\ ~last.access["offline_mode"].hasAccess

\* C26 as stated: when the store cannot be read while resolving,
\* checkFeatureAccess answers hasAccess false with the generic reason for
\* every feature.
C26_Original ==
  StoreUnreachable(last) =>
    \A f \in Features :
      /\ ~last.access[f].hasAccess
      /\ last.access[f].reason = Some(GenericReason)

\* C27 as stated: requirePremium lets the request proceed only if the resolve
\* it made reports premium, and otherwise answers with the denial that names
\* the upgrade URL.
C27_GuardOnlyPremium ==
  last.op = "resolve" =>
    /\ last.guard.proceeds => last.ent.isPremium
    /\ ~last.ent.isPremium =>
         /\ last.guard.status = "403"
         /\ last.guard.upgradeUrl # Null

\* C28 as amended: after a sign-in of an allow-listed identity whose override
\* write the store accepted, whatever row (or no row) the account had, its
\* row has tier premium, status active, billing_period permanent, expires_at
\* null and the plan_id premium_admin.
C28_AdminRecordWhenWritten ==
  (last.op = "signIn" /\ last.path \in {"admin_created", "admin_updated"}) =>
    /\ isAdminEmail(last.user)
    /\ last.outcome = "returned"
    /\ last.user \in DOMAIN subs
    /\ IsAdminRecord(subs[last.user])

C28_Witness ==
  /\ last.op = "signIn"
  /\ last.path = "admin_updated"
  /\ ~last.again
  /\ IsAdminRecord(subs[last.user])
  /\ subs[last.user].stripe_subscription_id # Null

\* C28 as stated: after every sign-in of an allow-listed identity that
\* returned, the account has the admin record.
C28_Original ==
  (last.op = "signIn" /\ last.outcome = "returned") =>
    /\ last.user \in DOMAIN subs
    /\ IsAdminRecord(subs[last.user])

\* C29: the override of a sign-in that answers when the account's row is
\* already the admin record changes no row and adds none, whether the store
\* accepts the write or not.
C29_SecondSignInUnchanged ==
  [][(/\ last'.op = "signIn"
      /\ last'.user \in DOMAIN subs
      /\ IsAdminRecord(subs[last'.user])) =>
       /\ subs' = subs
       /\ last'.again]_vars

C29_Witness ==
  /\ last.op = "signIn"
  /\ last.path = "admin_updated"
  /\ last.again
  /\ IsAdminRecord(subs[last.user])
  /\ DOMAIN subs = {last.user}

\* C30: a sign-in of an allow-listed identity returns its token whether or
\* not the store accepted the override, and a refused override changes no
\* row.
C30_SignInSurvivesOverride ==
  [][last'.op = "signIn" =>
       /\ last'.outcome = "returned"
       /\ last'.path = "admin_failed" => subs' = subs]_vars

C30_Witness ==
  /\ last.op = "signIn"
  /\ last.path = "admin_failed"
  /\ last.outcome = "returned"
  /\ last.user \notin DOMAIN subs

\* Response l is a resolve that read the store and found a row or had its
\* insert answered without a store error.
ResolvedWithStore(l) ==
  /\ l.op = "resolve"
  /\ l.path \notin {"fetch_error", "malformed"}

C32_ExpiryDiscipline ==
  \A a \in DOMAIN subs :
    LET r == subs[a] IN
      /\ (r.tier = "premium" /\ r.expires_at = Null) =>
           /\ r.billing_period = Some("permanent")
           /\ r.plan_id = Some("premium_admin")
      /\ (r.tier = "premium" /\ r.stripe_subscription_id # Null) =>
           /\ r.expires_at # Null
           /\ r.stripe_subscription_id[1] \in DOMAIN stripeSubs
           /\ r.expires_at[1] <=
                stripeSubs[r.stripe_subscription_id[1]].current_period_end

\* The columns of a subscription row, and the sets of columns the writers of
\* the table name in their insert, update or upsert.
Columns == DOMAIN DefaultRow

WriterColumns ==
  {{"tier", "status"},
   DOMAIN adminSubscriptionData,
   DOMAIN AdminUpdateCols,
   DOMAIN UpsertCols(DefaultRow, TRUE, FALSE),
   DOMAIN UpsertCols(DefaultRow, FALSE, FALSE),
   DOMAIN UpsertCols(DefaultRow, FALSE, TRUE),
   DOMAIN ReconcileCols(TRUE, 0, 0),
   DOMAIN CancelCols(0, 0),
   DOMAIN ReactivateCols,
   DOMAIN CancellationCols(0)}

\* Row r holds nothing but what one writer names: every column outside that
\* writer's set is as an insert without it leaves it.
WrittenByOne(r) ==
  \E K \in WriterColumns : \A c \in Columns \ K : r[c] = DefaultRow[c]

\* C33 as stated: in every state the fields of every stored row are those
\* written by a single operation, never fields of two writers side by side.
C33_SingleWriterRecord ==
  \A a \in DOMAIN subs : WrittenByOne(subs[a])

\* The row of account a agrees with what Stripe reports now for the
\* subscription it references: an active subscription is stored active with
\* its period end, one that is past due or canceled is not stored active.
ReflectsProvider(table, a) ==
  /\ a \in DOMAIN table
  /\ table[a].stripe_subscription_id # Null
  /\ table[a].stripe_subscription_id[1] \in DOMAIN stripeSubs
  /\ LET r == table[a]
         st == stripeSubs[r.stripe_subscription_id[1]]
     IN /\ st.status = "active" =>
             /\ r.status = "active"
             /\ r.expires_at = Some(st.current_period_end)
        /\ st.status \in {"past_due", "canceled"} => r.status # "active"

\* C34 as stated: no write that resolve, verifyPayment or a webhook handler
\* derives from what it saw of Stripe earlier replaces a row that agrees with
\* what Stripe reports now by one that does not.
C34_NoStaleOverwrite ==
  [][(/\ last'.op \in {"resolve", "verifyPayment", "webhook"}
      /\ stripeSubs' = stripeSubs) =>
       \A a \in Accounts :
         ReflectsProvider(subs, a) => ReflectsProvider(subs', a)]_vars

\* C35 as stated, for the resolves that read a row still bearing the admin
\* plan_id (which only the override of a successful sign-in writes): resolve
\* returns isPremium true, whatever Stripe reports for a subscription the
\* row references and whatever events were handled since.
C35_AdminStaysPremium ==
  (/\ last.op = "resolve"
   /\ last.rec # Null
   /\ isAdminEmail(last.user)
   /\ last.rec[1].plan_id = Some("premium_admin")) => last.ent.isPremium

\* Row r is as the handling of the subscription-updated event for Stripe's
\* present state of the trialing subscription it references leaves it.
StoredFromTrialing(r) ==
  /\ r.stripe_subscription_id # Null
  /\ r.stripe_subscription_id[1] \in DOMAIN stripeSubs
  /\ LET st == stripeSubs[r.stripe_subscription_id[1]]
     IN /\ st.status = "trialing"
        /\ r = Row(UpsertCols(UpdateEventCols(st) @@ DefaultRow, FALSE, FALSE)
                   @@ r)
  /\ r.cancelled_at = Null

\* C36 as stated: a resolve that reads, before its expires_at, the row the
\* subscription-updated event of a trialing subscription was stored in
\* returns isPremium true, as resolve's own query of Stripe would have it.
C36_TrialingIsPremium ==
  (/\ last.op = "resolve"
   /\ last.rec # Null
   /\ StoredFromTrialing(last.rec[1])
   /\ last.rec[1].expires_at[1] >= last.at) =>
    /\ StripeIsActive("trialing")
    /\ last.ent.isPremium

\* What a resolve whose calls all succeed returns as isPremium for row r at
\* time t while Stripe reports st: the local activity, replaced by Stripe's
\* when the row is locally active and references a subscription.
ResolveIsPremium(r, t, st) ==
  LET isActive == LocalIsActive(r, t)
  IN IF NeedsStripeCheck(r, isActive)
       THEN ResultIsPremium(r, StripeIsActive(st.status))
       ELSE ResultIsPremium(r, isActive)

\* The step ends a reactivate whose write is stored, for a row a stored
\* cancel left, nothing but the clock having acted since the start.
ReactivatedAfterCancel ==
  /\ last'.op = "reactivate"
  /\ last'.path = "reactivated"
  /\ subs[last'.user].status = "cancelled"
  /\ subs[last'.user].cancelled_at # Null

C38_SuccessMeansStored ==
  /\ (last.op = "cancel" /\ last.outcome = "returned") =>
       /\ last.user \in DOMAIN subs
       /\ subs[last.user].status = "cancelled"
       /\ subs[last.user].cancelled_at # Null
  /\ (last.op = "reactivate" /\ last.outcome = "returned") =>
       /\ last.user \in DOMAIN subs
       /\ subs[last.user].status = "active"
       /\ subs[last.user].cancelled_at = Null


\* Response l acknowledges a signed subscription-updated or
\* subscription-deleted delivery whose metadata names an account.
AcknowledgedChange(l) ==
  /\ l.op = "webhook"
  /\ l.outcome = "acknowledged"
  /\ l.ev # Null
  /\ l.ev[1].signed
  /\ l.ev[1].type \in {"customer.subscription.updated",
                       "customer.subscription.deleted"}
  /\ l.ev[1].sub.userId # Null

\* C39: a verified subscription-updated or subscription-deleted event is
\* acknowledged only if its state change is in the store: the account's row
\* carries the event's subscription, status and period end, or every row of
\* the deleted subscription is cancelled with cancelled_at set; a delivery
\* whose store write failed is not acknowledged.
C39_AcknowledgedMeansPersisted ==
  AcknowledgedChange(last) =>
    LET subscription == last.ev[1].sub
        a == subscription.userId[1]
    IN /\ last.path \notin {"update_failed", "delete_failed"}
       /\ last.ev[1].type = "customer.subscription.updated" =>
            /\ a \in DOMAIN subs
            /\ subs[a].stripe_subscription_id = Some(subscription.id)
            /\ subs[a].expires_at = Some(subscription.current_period_end)
       /\ last.ev[1].type = "customer.subscription.deleted" =>
            \A b \in DOMAIN subs :
              subs[b].stripe_subscription_id = Some(subscription.id) =>
                /\ subs[b].status = "cancelled"
                /\ subs[b].cancelled_at # Null

====
